---------------------------- MODULE Spec2Model ----------------------------
(* A model of src/hloc_pose_estimation.py: the pose estimation pipeline   *)
(* (input collection, image listing, feature extraction and matching,     *)
(* SfM reconstruction, pose export) and its controller main().            *)
(*                                                                        *)
(* Strings are sequences of one-character strings, compared as Python     *)
(* compares str values (by code point); a floating point number is an     *)
(* integer count of 1e-7 units, so that the "%.6f" formatting of the text *)
(* exports is a rounding and not the identity.                            *)
EXTENDS Integers, Sequences, FiniteSets, TLC

(* ------------------------------ bounds ------------------------------ *)
\* entries of the input directory
MaxEntries == 2
\* decodable frames of a video
MaxT == 1
\* --frame_skip values 0..MaxN
MaxN == 1
\* --max_images values 0..MaxM (or unset)
MaxM == 1
\* frames of the video in the frame extraction specification
MaxFrames == 10
\* its strides 0..MaxStride
MaxStride == 4
\* its caps 0..MaxCap (or unset)
MaxCap == 4
\* images of a reconstruction model in the export specification
MaxImages == 3
\* entries of an image pool in the listing specification
MaxPool == 3

(* ------------------------------ strings ----------------------------- *)
\* The characters used, in code point order.
Chars ==
  << " ", "+", "-", ".", "/", "0", "1", "2", "3", "4", "5", "6", "7", "8", "9",
     "A", "B", "C", "D", "E", "F", "G", "H", "I", "J", "K", "L", "M",
     "N", "O", "P", "Q", "R", "S", "T", "U", "V", "W", "X", "Y", "Z", "_",
     "a", "b", "c", "d", "e", "f", "g", "h", "i", "j", "k", "l", "m",
     "n", "o", "p", "q", "r", "s", "t", "u", "v", "w", "x", "y", "z" >>

CharSet == { Chars[i] : i \in 1..Len(Chars) }

OrdOf == [c \in CharSet |-> CHOOSE i \in 1..Len(Chars) : Chars[i] = c]

\* ord(c), counted from the first character used
Ord(c) == OrdOf[c]

UpperChars == { Chars[i] : i \in Ord("A")..Ord("Z") }

\* str.lower() of one character, and of a string
LowerChar(c) == IF c \in UpperChars THEN Chars[Ord(c) - Ord("A") + Ord("a")] ELSE c

Lower(s) == [i \in 1..Len(s) |-> LowerChar(s[i])]

\* s < t for two str values: the first differing character decides, and a
\* proper prefix is smaller.
RECURSIVE StrLess(_, _)
StrLess(s, t) ==
  IF t = << >> THEN FALSE
  ELSE IF s = << >> THEN TRUE
  ELSE IF Head(s) = Head(t) THEN StrLess(Tail(s), Tail(t))
  ELSE Ord(Head(s)) < Ord(Head(t))

\* str.startswith
StartsWith(s, p) == Len(s) >= Len(p) /\ SubSeq(s, 1, Len(p)) = p

\* str.rfind of one character: the last index holding it, 0 when none
\* (Python's -1; indices here start at 1)
RFind(s, c) ==
  IF \E i \in 1..Len(s) : s[i] = c
  THEN CHOOSE i \in 1..Len(s) : s[i] = c /\ \A j \in (i+1)..Len(s) : s[j] # c
  ELSE 0

\* PurePath.name: the final component of a posix path
Name(p) == SubSeq(p, RFind(p, "/") + 1, Len(p))

\* PurePath.suffix: from the last dot of the name, unless the name starts
\* or ends with that dot
Suffix(p) ==
  LET n == Name(p)
      i == RFind(n, ".")
  IN IF 1 < i /\ i < Len(n) THEN SubSeq(n, i, Len(n)) ELSE << >>

\* PurePath.stem: the name without its suffix
Stem(p) ==
  LET n == Name(p)
      i == RFind(n, ".")
  IN IF 1 < i /\ i < Len(n) THEN SubSeq(n, 1, i - 1) ELSE n

\* images_dir / a / b as a posix string relative to images_dir
Join(a, b) == a \o << "/" >> \o b

\* str(k) for k >= 0
RECURSIVE Digits(_)
Digits(k) ==
  IF k < 10 THEN << Chars[Ord("0") + k] >>
  ELSE Digits(k \div 10) \o << Chars[Ord("0") + (k % 10)] >>

\* f"{k:06d}"
RECURSIVE ZeroPad(_, _)
ZeroPad(s, width) == IF Len(s) >= width THEN s ELSE ZeroPad(<< "0" >> \o s, width)

Pad6(k) == ZeroPad(Digits(k), 6)

\* f"frame_{k:06d}.jpg"
FrameName(k) ==
  << "f", "r", "a", "m", "e", "_" >> \o Pad6(k) \o << ".", "j", "p", "g" >>

video_extensions ==
  { << ".", "m", "p", "4" >>, << ".", "a", "v", "i" >>, << ".", "m", "o", "v" >>,
    << ".", "m", "k", "v" >>, << ".", "w", "m", "v" >>, << ".", "f", "l", "v" >>,
    << ".", "w", "e", "b", "m" >> }

image_extensions ==
  { << ".", "j", "p", "g" >>, << ".", "j", "p", "e", "g" >>, << ".", "p", "n", "g" >>,
    << ".", "b", "m", "p" >>, << ".", "t", "i", "f", "f" >>, << ".", "t", "i", "f" >> }

\* An optional value: None, or Some(x) holding x
None == << >>

Some(x) == << x >>

ValueOf(o) == o[1]

\* str.strip() of blanks
RECURSIVE Strip(_)
Strip(s) ==
  IF s = << >> THEN s
  ELSE IF Head(s) = " " THEN Strip(Tail(s))
  ELSE IF s[Len(s)] = " " THEN Strip(SubSeq(s, 1, Len(s) - 1))
  ELSE s

DecimalDigits == { Chars[i] : i \in Ord("0")..Ord("9") }

\* The value of a string of digits and underscores, read from the left
RECURSIVE DigitsValue(_, _)
DigitsValue(s, acc) ==
  IF s = << >> THEN acc
  ELSE IF Head(s) = "_" THEN DigitsValue(Tail(s), acc)
  ELSE DigitsValue(Tail(s), 10 * acc + (Ord(Head(s)) - Ord("0")))

\* int(s) of a str: blanks around, an optional sign, then digits with single
\* underscores between them; None stands for the ValueError of anything else
IntOf(s) ==
  LET t == Strip(s)
      signed == t # << >> /\ Head(t) \in { "+", "-" }
      d == IF signed THEN Tail(t) ELSE t
      wellformed ==
        /\ d # << >>
        /\ \A i \in 1..Len(d) : d[i] \in DecimalDigits \cup { "_" }
        /\ d[1] # "_" /\ d[Len(d)] # "_"
        /\ \A i \in 1..(Len(d) - 1) : ~(d[i] = "_" /\ d[i + 1] = "_")
  IN IF ~wellformed THEN None
     ELSE IF signed /\ Head(t) = "-" THEN Some(-DigitsValue(d, 0))
     ELSE Some(DigitsValue(d, 0))


(* ------------------------------- state ------------------------------ *)
VARIABLES
  args,              \* the parsed arguments, after the environment overrides
  input_dir,         \* args.input_dir: [exists, entries]
  pool,              \* temp_dir / "images": [exists, entries]
  out_files,         \* the files and directories under args.output_dir
  out_before,        \* out_files as the run found it
  pc,                \* the controller's position in main()
  trace,             \* the stage functions called so far, in call order
  completed,         \* the stages that returned without a reported failure
  failure,           \* what main() reported before it returned 1
  exit_code,         \* main()'s return value, None while it runs
  processed_files,   \* process_input_files: the (path, kind, count) triples
  total_image_count, \* process_input_files: the total
  image_list,        \* collect_image_list: the manifest
  image_list2,       \* a second call of collect_image_list on the same pool
  success,           \* extract_and_match_features: its result
  raised_in,         \* the stage whose exception main() caught
  matcher_conf,      \* the key of match_features.confs used
  engine,            \* what reconstruction.main answered
  model,             \* run_sfm_reconstruction's result as main() holds it
  camera_poses,      \* export_camera_poses: the sorted records (the JSON file)
  tum_file,          \* poses/trajectory_tum.txt: its pose lines
  colmap_file,       \* poses/images_poses.txt: its pose lines
  video,             \* frame extraction alone: [frames, frame_skip, max_frames]
  extracted,         \* frame extraction alone: [count, written]
  environ,           \* os.environ: the three variables main() reads
  parsed,            \* parser.parse_args(): the arguments before the overrides
  pool_before,       \* pool as the run found it
  sfm_pairs          \* pairs-sfm.txt: the call that wrote it and what it wrote

vars ==
  << args, input_dir, pool, out_files, out_before, pc, trace, completed, failure,
     exit_code, processed_files, total_image_count, image_list, image_list2,
     success, raised_in, matcher_conf, engine, model, camera_poses, tum_file, colmap_file, video,
     extracted, environ, parsed, pool_before, sfm_pairs >>

\* All orderings of a finite set, as sequences
RECURSIVE Perms(_)
Perms(S) ==
  IF S = {} THEN { << >> }
  ELSE UNION { { << x >> \o p : p \in Perms(S \ { x }) } : x \in S }

RECURSIVE SomeOrder(_)
SomeOrder(S) ==
  IF S = {} THEN << >>
  ELSE LET x == CHOOSE y \in S : TRUE IN << x >> \o SomeOrder(S \ { x })

Reverse(s) == [i \in 1..Len(s) |-> s[Len(s) + 1 - i]]

\* The orders in which a directory walk or a mapping may answer the members
\* of S: every order of a small S, and one order and its reverse of a larger
\* one.
WalkOrders(S) ==
  IF Cardinality(S) <= MaxPool THEN Perms(S)
  ELSE { SomeOrder(S), Reverse(SomeOrder(S)) }

(* --------------------- extract_frames_from_video -------------------- *)
\* One pass of the while loop of extract_frames_from_video, over a capture
\* that decodes T frames: cap.read() answers ret = False at frame T.  The
\* result is the frames written, in order, each [name, frame]; raised is the
\* ZeroDivisionError of frame_count % 0.
RECURSIVE FrameLoop(_, _, _, _, _, _)
FrameLoop(T, frame_skip, max_frames, frame_count, extracted_count, written) ==
  IF ~(max_frames = None \/ extracted_count < ValueOf(max_frames))
  THEN [raised |-> FALSE, count |-> extracted_count, written |-> written]
  ELSE IF frame_count >= T
  THEN [raised |-> FALSE, count |-> extracted_count, written |-> written]
  ELSE IF frame_skip = 0
  THEN [raised |-> TRUE, count |-> extracted_count, written |-> written]
  ELSE IF frame_count % frame_skip = 0
  THEN FrameLoop(T, frame_skip, max_frames, frame_count + 1, extracted_count + 1,
                 Append(written, [name |-> FrameName(extracted_count),
                                  frame |-> frame_count]))
  ELSE FrameLoop(T, frame_skip, max_frames, frame_count + 1, extracted_count, written)

ExtractCountingFromOne(T, frame_skip, max_frames) ==
  FrameLoop(T, frame_skip, max_frames, 1, 0, << >>)

extract_frames_from_video(T, frame_skip, max_frames) ==
  FrameLoop(T, frame_skip, max_frames, 0, 0, << >>)

(* ------------------------- the image pool --------------------------- *)
\* An entry of the pool: a path relative to images_dir, whether it is a
\* regular file, and for a file what was written there (the input file it
\* came from and the index of the source frame).
PoolFile(path, src, frame) ==
  [path |-> path, is_file |-> TRUE, src |-> src, frame |-> frame]

PoolDir(path) == [path |-> path, is_file |-> FALSE, src |-> << >>, frame |-> 0]

IsFileAt(entries, path) == \E e \in entries : e.path = path /\ e.is_file

IsDirAt(entries, path) == \E e \in entries : e.path = path /\ ~e.is_file

\* open(path, "w"): the file at path is replaced
WriteFile(entries, f) == { e \in entries : e.path # f.path } \cup { f }

\* Path.mkdir(parents=True, exist_ok=True) of a directory whose parents exist
MkDir(entries, path) ==
  IF IsDirAt(entries, path) THEN entries ELSE entries \cup { PoolDir(path) }

RECURSIVE WriteFrames(_, _, _, _)
WriteFrames(entries, dir, src, written) ==
  IF written = << >> THEN entries
  ELSE WriteFrames(WriteFile(entries, PoolFile(Join(dir, Head(written).name), src,
                                               Head(written).frame)),
                   dir, src, Tail(written))

(* ------------------------ process_input_files ----------------------- *)
\* An entry of the input directory: its name, whether it is a regular
\* file, and the number of frames it decodes to when opened as a video.
InputEntry(name, is_file, frames) ==
  [name |-> name, is_file |-> is_file, frames |-> frames]

\* How the for loop of process_input_files treats an entry
FileKindNoIsFile(file) ==
  LET file_ext == Lower(Suffix(file.name)) IN
  IF file_ext \in video_extensions THEN "video"
  ELSE IF file_ext \in image_extensions THEN "image"
  ELSE "ignored"

FileKind(file) ==
  LET file_ext == Lower(Suffix(file.name)) IN
  IF ~file.is_file THEN "ignored"
  ELSE IF file_ext \in video_extensions THEN "video"
  ELSE IF file_ext \in image_extensions THEN "image"
  ELSE "ignored"

\* The body of the for loop of process_input_files for one entry.  st is
\* [entries, processed_files, total_images, raised].
ProcessOne(st, file, frame_skip, max_images) ==
  IF st.raised \/ FileKind(file) = "ignored" THEN st
  ELSE IF FileKind(file) = "video"
  THEN LET video_output_dir == Stem(file.name)
           r == extract_frames_from_video(file.frames, frame_skip, max_images)
       IN IF IsFileAt(st.entries, video_output_dir)
          THEN [st EXCEPT !.raised = TRUE]
          ELSE [entries |-> WriteFrames(MkDir(st.entries, video_output_dir),
                                        video_output_dir, file.name, r.written),
                processed_files |->
                  IF r.raised THEN st.processed_files
                  ELSE Append(st.processed_files,
                              [path |-> file.name, kind |-> "video", count |-> r.count]),
                total_images |->
                  IF r.raised THEN st.total_images ELSE st.total_images + r.count,
                raised |-> r.raised]
  ELSE LET dest_path == IF IsDirAt(st.entries, file.name)
                        THEN Join(file.name, file.name)
                        ELSE file.name
       IN [entries |-> WriteFile(st.entries, PoolFile(dest_path, file.name, 0)),
           processed_files |->
             Append(st.processed_files,
                    [path |-> file.name, kind |-> "image", count |-> 1]),
           total_images |-> st.total_images + 1,
           raised |-> FALSE]

RECURSIVE ProcessLoop(_, _, _, _)
ProcessLoop(st, order, frame_skip, max_images) ==
  IF order = << >> THEN st
  ELSE ProcessLoop(ProcessOne(st, Head(order), frame_skip, max_images),
                   Tail(order), frame_skip, max_images)

\* process_input_files, with input_dir.iterdir() answering the entries in
\* the given order.  The result carries the pool as the call leaves it.
process_input_files(dir, order, the_pool, frame_skip, max_images) ==
  IF ~dir.exists
  THEN [pool |-> [exists |-> TRUE, entries |-> the_pool.entries],
        processed_files |-> << >>, total_images |-> 0, raised |-> FALSE]
  ELSE LET st == ProcessLoop([entries |-> the_pool.entries, processed_files |-> << >>,
                              total_images |-> 0, raised |-> FALSE],
                             order, frame_skip, max_images)
       IN [pool |-> [exists |-> TRUE, entries |-> st.entries],
           processed_files |-> st.processed_files,
           total_images |-> st.total_images,
           raised |-> st.raised]

(* ------------------------ collect_image_list ------------------------ *)
\* list.sort() of str values: a stable insertion of each element after the
\* elements that are not greater than it.
RECURSIVE InsertStr(_, _)
InsertStr(sorted, x) ==
  IF sorted = << >> THEN << x >>
  ELSE IF StrLess(x, Head(sorted)) THEN << x >> \o sorted
  ELSE << Head(sorted) >> \o InsertStr(Tail(sorted), x)

RECURSIVE SortStr(_, _)
SortStr(done, rest) ==
  IF rest = << >> THEN done ELSE SortStr(InsertStr(done, Head(rest)), Tail(rest))

Unsorted(list) == list

sort(list) == SortStr(<< >>, list)

\* The loop of collect_image_list over images_dir.rglob("*") answering the
\* pool's entries in the given order.
RECURSIVE CollectLoop(_, _)
CollectLoop(image_names, walk) ==
  IF walk = << >> THEN image_names
  ELSE LET file_path == Head(walk) IN
       CollectLoop(IF file_path.is_file /\ Lower(Suffix(file_path.path)) \in image_extensions
                   THEN Append(image_names, file_path.path)
                   ELSE image_names,
                   Tail(walk))

collect_image_list(the_pool, walk) ==
  IF ~the_pool.exists THEN << >> ELSE sort(CollectLoop(<< >>, walk))

(* -------------------- extract_and_match_features -------------------- *)
superglue == << "s", "u", "p", "e", "r", "g", "l", "u", "e" >>

lightglue == << "l", "i", "g", "h", "t", "g", "l", "u", "e" >>

nearest_neighbor ==
  << "n", "e", "a", "r", "e", "s", "t", "_", "n", "e", "i", "g", "h", "b", "o", "r" >>

aliked == << "a", "l", "i", "k", "e", "d" >>

aliked_n16 == aliked \o << "-", "n", "1", "6" >>

superpoint_aachen ==
  << "s", "u", "p", "e", "r", "p", "o", "i", "n", "t", "_", "a", "a", "c", "h", "e", "n" >>

disk == << "d", "i", "s", "k" >>

d2net == << "d", "2", "n", "e", "t" >>

r2d2 == << "r", "2", "d", "2" >>

\* the choices of --feature_extractor and of --feature_matcher
FeatureExtractors == { superpoint_aachen, aliked, aliked_n16, disk, d2net, r2d2 }

FeatureMatchers == { superglue, lightglue, nearest_neighbor }

MatcherKeyExactAliked(feature_extractor, feature_matcher) ==
  IF feature_matcher = superglue THEN "superglue"
  ELSE IF feature_extractor = aliked /\ feature_matcher = lightglue
  THEN "aliked+lightglue"
  ELSE "nearest_neighbor"

\* The key of match_features.confs that extract_and_match_features uses
MatcherKey(feature_extractor, feature_matcher) ==
  IF feature_matcher = superglue THEN "superglue"
  ELSE IF StartsWith(feature_extractor, aliked) /\ feature_matcher = lightglue
  THEN "aliked+lightglue"
  ELSE "nearest_neighbor"

\* What the calls into the feature library do: every call returns ("none"),
\* or the named call raises: a lookup in the configuration registries
\* ("confs"), the local feature extraction ("extract"), the global descriptor
\* extraction or the pair generation ("pairs"), the matching ("match").
\* A call that raises leaves no file of its own.
LibraryOutcomes == { "none", "confs", "extract", "pairs", "match" }

\* pairs_from_exhaustive.main(sfm_pairs, image_list=image_list): every
\* unordered pair of two different entries of the list, once, each entry
\* with the entries after it
RECURSIVE pairs_from_exhaustive(_)
pairs_from_exhaustive(names) ==
  IF names = << >> THEN << >>
  ELSE [j \in 1..(Len(names) - 1) |-> << Head(names), names[j + 1] >>]
       \o pairs_from_exhaustive(Tail(names))

\* pairs-sfm.txt before a call has written it
NoPairs == [call |-> "none", num_matched |-> None, pairs |-> None]

\* The pair generation of extract_and_match_features: by retrieval with the
\* top-K handed on, or exhaustive.  The pairs of a retrieval are decided by
\* the global descriptors and are not modelled.
PairGenerationAlwaysRetrieval(image_names, use_netvlad_retrieval, netvlad_num_matched) ==
  [call |-> "pairs_from_retrieval", num_matched |-> Some(netvlad_num_matched),
   pairs |-> None]

PairGeneration(image_names, use_netvlad_retrieval, netvlad_num_matched) ==
  IF use_netvlad_retrieval
  THEN [call |-> "pairs_from_retrieval", num_matched |-> Some(netvlad_num_matched),
        pairs |-> None]
  ELSE [call |-> "pairs_from_exhaustive", num_matched |-> None,
        pairs |-> Some(pairs_from_exhaustive(image_names))]

extract_and_match_features(manifest, files, feature_extractor, feature_matcher, use_netvlad_retrieval, netvlad_num_matched, raises) ==
  LET key == MatcherKey(feature_extractor, feature_matcher)
      generated == PairGeneration(manifest, use_netvlad_retrieval, netvlad_num_matched)
      f1 == files \cup { "features.h5" }
      f2 == IF use_netvlad_retrieval THEN f1 \cup { "global-features.h5" } ELSE f1
      f3 == f2 \cup { "pairs-sfm.txt" }
      f4 == f3 \cup { "matches.h5" }
      no == [raised |-> FALSE, success |-> FALSE, conf |-> "", files |-> files,
             sfm_pairs |-> None]
  IN IF Len(manifest) = 0 THEN no
     ELSE IF raises = "confs" THEN [no EXCEPT !.raised = TRUE]
     ELSE IF raises = "extract" THEN [no EXCEPT !.raised = TRUE, !.conf = key]
     ELSE IF raises = "pairs"
     THEN [no EXCEPT !.raised = TRUE, !.conf = key, !.files = f1]
     ELSE IF raises = "match"
     THEN [raised |-> TRUE, success |-> FALSE, conf |-> key, files |-> f3,
           sfm_pairs |-> Some(generated)]
     ELSE [raised |-> FALSE, success |-> TRUE, conf |-> key, files |-> f4,
           sfm_pairs |-> Some(generated)]

(* ---------------------- run_sfm_reconstruction ---------------------- *)
\* What reconstruction.main does: it raises, it returns None, or it returns
\* a model.  answer is [kind, model].
run_sfm_reconstruction(manifest, files, answer, logger) ==
  IF Len(manifest) = 0
  THEN [raised |-> FALSE, model |-> None, files |-> files]
  ELSE IF answer.kind = "raise"
  THEN [raised |-> TRUE, model |-> None, files |-> files]
  ELSE IF logger /\ answer.kind = "null"
  \* len(model.images) of None, in the log line after the call
  THEN [raised |-> TRUE, model |-> None, files |-> files \cup { "sfm" }]
  ELSE [raised |-> FALSE,
        model |-> IF answer.kind = "null" THEN None ELSE Some(answer.model),
        files |-> files \cup { "sfm" }]

(* ------------------------ export_camera_poses ----------------------- *)
\* 1.0 in the unit of the numbers: 1e-7
Unit == 10 * 1000 * 1000

\* f"{x:.6f}": x rounded to a whole number of 1e-6, half to even
Fmt6(x) ==
  LET q == x \div 10
      r == x % 10
  IN IF r < 5 THEN q
     ELSE IF r > 5 THEN q + 1
     ELSE IF q % 2 = 0 THEN q ELSE q + 1

\* The rotations of the model are the identity and the half turns about the
\* axes: the quaternion (w, x, y, z) has one non-zero component, and the
\* rotation matrix is diagonal with these signs.
RotationSigns(quat) ==
  IF quat[1] # 0 THEN << 1, 1, 1 >>
  ELSE IF quat[2] # 0 THEN << 1, -1, -1 >>
  ELSE IF quat[3] # 0 THEN << -1, 1, -1 >>
  ELSE << -1, -1, 1 >>

\* Rigid3d.inverse(): the conjugate rotation, and the translation rotated
\* back and negated
Inverse(rigid) ==
  LET sg == RotationSigns(rigid.quat) IN
  [quat |-> << rigid.quat[1], -rigid.quat[2], -rigid.quat[3], -rigid.quat[4] >>,
   t |-> << -(sg[1] * rigid.t[1]), -(sg[2] * rigid.t[2]), -(sg[3] * rigid.t[3]) >>]

\* Rotation3d.matrix(), row-major
Matrix(quat) ==
  LET sg == RotationSigns(quat) IN
  << << sg[1] * Unit, 0, 0 >>, << 0, sg[2] * Unit, 0 >>, << 0, 0, sg[3] * Unit >> >>

\* sum(1 for p2D in image.points2D if p2D.has_point3D())
RECURSIVE CountPoints3D(_)
CountPoints3D(points2D) ==
  IF points2D = << >> THEN 0
  ELSE (IF Head(points2D) THEN 1 ELSE 0) + CountPoints3D(Tail(points2D))

\* The body of the loop over model.images.items()
PoseData(image) ==
  LET world_from_cam == Inverse(image.cam_from_world) IN
  [image_id |-> image.image_id,
   image_name |-> image.name,
   camera_id |-> image.camera_id,
   translation |-> world_from_cam.t,
   rotation_matrix |-> Matrix(world_from_cam.quat),
   quaternion |-> world_from_cam.quat,
   num_points3D |-> CountPoints3D(image.points2D)]

\* camera_poses.sort(key=lambda x: x['image_name']), a stable sort
RECURSIVE InsertPose(_, _)
InsertPose(sorted, x) ==
  IF sorted = << >> THEN << x >>
  ELSE IF StrLess(x.image_name, Head(sorted).image_name) THEN << x >> \o sorted
  ELSE << Head(sorted) >> \o InsertPose(Tail(sorted), x)

RECURSIVE SortPoseLoop(_, _)
SortPoseLoop(done, rest) ==
  IF rest = << >> THEN done
  ELSE SortPoseLoop(InsertPose(done, Head(rest)), Tail(rest))

UnsortedPoses(poses) == poses

SortPoses(poses) == SortPoseLoop(<< >>, poses)

\* A line of trajectory_tum.txt: timestamp tx ty tz qx qy qz qw
TumLine(i, pose) ==
  [timestamp |-> Pad6(i),
   t |-> << Fmt6(pose.translation[1]), Fmt6(pose.translation[2]),
            Fmt6(pose.translation[3]) >>,
   q |-> << Fmt6(pose.quaternion[2]), Fmt6(pose.quaternion[3]),
            Fmt6(pose.quaternion[4]), Fmt6(pose.quaternion[1]) >>]

\* A line of images_poses.txt: image_id qw qx qy qz tx ty tz camera_id name
ColmapLine(pose) ==
  [image_id |-> pose.image_id,
   q |-> << Fmt6(pose.quaternion[1]), Fmt6(pose.quaternion[2]),
            Fmt6(pose.quaternion[3]), Fmt6(pose.quaternion[4]) >>,
   t |-> << Fmt6(pose.translation[1]), Fmt6(pose.translation[2]),
            Fmt6(pose.translation[3]) >>,
   camera_id |-> pose.camera_id,
   image_name |-> pose.image_name]

\* export_camera_poses, with model.images.items() answering the images in
\* the given order; raises says that a call into the model raised while the
\* poses were collected, before any file is opened.
export_camera_poses(items, files, raises) ==
  LET camera_poses_ == SortPoses([i \in 1..Len(items) |-> PoseData(items[i])]) IN
  IF raises
  THEN [raised |-> TRUE, camera_poses |-> << >>, tum |-> << >>, colmap |-> << >>,
        files |-> files]
  ELSE [raised |-> FALSE,
        camera_poses |-> camera_poses_,
        tum |-> [i \in 1..Len(camera_poses_) |-> TumLine(i - 1, camera_poses_[i])],
        colmap |-> [i \in 1..Len(camera_poses_) |-> ColmapLine(camera_poses_[i])],
        files |-> files \cup { "poses/camera_poses.json", "poses/trajectory_tum.txt",
                               "poses/images_poses.txt" }]

(* ------------------------------ main() ------------------------------ *)
\* The stage functions in the order main() calls them
Stages == << "collect", "list", "extract", "reconstruct", "export" >>

\* The error main() logs before it returns 1
NoInput == "No valid input files found!"

NoImages == "No images found for processing!"

ExtractFailed == "Feature extraction and matching failed!"

SfmFailed == "SfM reconstruction failed!"

PipelineFailed == "Pipeline failed with error"

\* if total_image_count == 0
NeverEmptyInput(total) == FALSE

EmptyInput(total) == total = 0

\* if len(image_list) == 0
EmptyManifest(list) == Len(list) = 0

\* if model is None
ModelOrRegistrationMissing(m) == m = None \/ ValueOf(m).images = {}

ModelMissing(m) == m = None

\* return 1 from the try block, or from its except clause
Fail(stage, message) ==
  /\ pc' = "Failed"
  /\ failure' = message
  /\ exit_code' = Some(1)
  /\ trace' = Append(trace, stage)
  /\ UNCHANGED completed

Raise(stage) ==
  /\ Fail(stage, PipelineFailed)
  /\ raised_in' = Some(stage)

Proceed(stage, next) ==
  /\ pc' = next
  /\ trace' = Append(trace, stage)
  /\ completed' = completed \cup { stage }
  /\ UNCHANGED << failure, raised_in, exit_code >>

\* process_input_files and the check of its total
Collect ==
  /\ pc = "CollectingInput"
  /\ \E order \in Perms(input_dir.entries) :
       LET r == process_input_files(input_dir, order, pool, args.frame_skip,
                                    args.max_images)
       IN /\ pool' = r.pool
          /\ IF r.raised
             THEN /\ Raise("collect")
                  /\ UNCHANGED << processed_files, total_image_count >>
             ELSE /\ processed_files' = r.processed_files
                  /\ total_image_count' = r.total_images
                  /\ IF EmptyInput(r.total_images)
                     THEN Fail("collect", NoInput) /\ UNCHANGED raised_in
                     ELSE Proceed("collect", "Listing")
  /\ UNCHANGED << args, environ, parsed, pool_before, sfm_pairs,
                  input_dir, out_files, out_before, image_list, image_list2,
                  success, matcher_conf, engine, model, camera_poses, tum_file,
                  colmap_file, video, extracted >>

\* collect_image_list and the check of the manifest
List ==
  /\ pc = "Listing"
  /\ \E walk \in WalkOrders(pool.entries) :
       LET list == collect_image_list(pool, walk)
       IN /\ image_list' = list
          /\ IF EmptyManifest(list)
             THEN Fail("list", NoImages) /\ UNCHANGED raised_in
             ELSE Proceed("list", "ExtractingMatching")
  /\ UNCHANGED << args, environ, parsed, pool_before, sfm_pairs,
                  input_dir, pool, out_files, out_before, processed_files,
                  total_image_count, image_list2, success, matcher_conf, engine,
                  model, camera_poses, tum_file, colmap_file, video, extracted >>

\* extract_and_match_features and the check of its result
ExtractMatch ==
  /\ pc = "ExtractingMatching"
  /\ \E raises \in LibraryOutcomes :
       LET r == extract_and_match_features(image_list, out_files,
                  args.feature_extractor, args.feature_matcher,
                  args.use_netvlad_retrieval, args.netvlad_num_matched, raises)
       IN /\ out_files' = r.files
          /\ matcher_conf' = r.conf
          /\ sfm_pairs' = IF r.sfm_pairs = None THEN sfm_pairs ELSE ValueOf(r.sfm_pairs)
          /\ IF r.raised
             THEN Raise("extract") /\ UNCHANGED success
             ELSE /\ success' = Some(r.success)
                  /\ IF ~r.success
                     THEN Fail("extract", ExtractFailed) /\ UNCHANGED raised_in
                     ELSE Proceed("extract", "Reconstructing")
  /\ UNCHANGED << args, environ, parsed, pool_before,
                  input_dir, pool, out_before, processed_files,
                  total_image_count, image_list, image_list2, engine, model,
                  camera_poses, tum_file, colmap_file, video, extracted >>

\* The poses the reconstruction engine gives the images of a run
SamplePoses ==
  << [quat |-> << Unit, 0, 0, 0 >>, t |-> << 4, -15, 25 >>],
     [quat |-> << 0, Unit, 0, 0 >>, t |-> << Unit + 5, 12345678, -5 >>],
     [quat |-> << 0, 0, -Unit, 0 >>, t |-> << -25, 35, 2 * Unit >>],
     [quat |-> << 0, 0, 0, Unit >>, t |-> << 0, -Unit - 6, 14 >>] >>

\* The image of the model registered for entry i of the manifest
RegisteredImage(manifest, i) ==
  [image_id |-> i,
   name |-> manifest[i],
   camera_id |-> 1,
   cam_from_world |-> SamplePoses[(i % Len(SamplePoses)) + 1],
   points2D |-> [k \in 1..(i % 3) |-> k = 1]]

\* The sets of manifest entries the engine may register: any subset of a
\* manifest of up to MaxImages entries; none, the first, all but the first
\* or all of a longer one
Registrations(manifest) ==
  IF Len(manifest) <= MaxImages THEN SUBSET (1..Len(manifest))
  ELSE { {}, { 1 }, 2..Len(manifest), 1..Len(manifest) }

\* What reconstruction.main may answer for a manifest: it raises, it returns
\* None, or it returns a model in which some of the images are registered
EngineAnswers(manifest) ==
  { [kind |-> "raise", model |-> [images |-> {}]],
    [kind |-> "null", model |-> [images |-> {}]] }
  \cup { [kind |-> "model",
          model |-> [images |-> { RegisteredImage(manifest, i) : i \in R }]] :
         R \in Registrations(manifest) }

\* run_sfm_reconstruction and the check of the model
Reconstruct ==
  /\ pc = "Reconstructing"
  /\ \E answer \in EngineAnswers(image_list) :
       LET r == run_sfm_reconstruction(image_list, out_files, answer, TRUE)
       IN /\ engine' = answer.kind
          /\ out_files' = r.files
          /\ IF r.raised
             THEN Raise("reconstruct") /\ UNCHANGED model
             ELSE /\ model' = r.model
                  /\ IF ModelMissing(r.model)
                     THEN Fail("reconstruct", SfmFailed) /\ UNCHANGED raised_in
                     ELSE Proceed("reconstruct", "Exporting")
  /\ UNCHANGED << args, environ, parsed, pool_before, sfm_pairs,
                  input_dir, pool, out_before, processed_files,
                  total_image_count, image_list, image_list2, success,
                  matcher_conf, camera_poses, tum_file, colmap_file, video,
                  extracted >>

\* export_camera_poses, the summary and return 0
Export ==
  /\ pc = "Exporting"
  /\ \E raises \in BOOLEAN :
     \E items \in IF raises THEN { << >> } ELSE WalkOrders(ValueOf(model).images) :
       LET r == export_camera_poses(items, out_files, raises)
       IN /\ out_files' = r.files
          /\ IF r.raised
             THEN Raise("export") /\ UNCHANGED << camera_poses, tum_file, colmap_file >>
             ELSE /\ camera_poses' = r.camera_poses
                  /\ tum_file' = r.tum
                  /\ colmap_file' = r.colmap
                  /\ pc' = "Done"
                  /\ exit_code' = Some(0)
                  /\ trace' = Append(trace, "export")
                  /\ completed' = completed \cup { "export" }
                  /\ UNCHANGED << failure, raised_in >>
  /\ UNCHANGED << args, environ, parsed, pool_before, sfm_pairs,
                  input_dir, pool, out_before, processed_files,
                  total_image_count, image_list, image_list2, success,
                  matcher_conf, engine, model, video, extracted >>

Next == Collect \/ List \/ ExtractMatch \/ Reconstruct \/ Export

(* --------------------- the environment overrides -------------------- *)
\* action="store_true" with a default: the flag sets True
store_true(given, default) == IF given THEN TRUE ELSE default

\* if os.getenv(name): the variable is set, and not to the empty string
GetenvAlways(value) == value # None

Getenv(value) == value # None /\ ValueOf(value) # << >>

true == << "t", "r", "u", "e" >>

false == << "f", "a", "l", "s", "e" >>

\* The three overrides of main(), in source order; int() of a string that is
\* not a number raises, and the later overrides are not reached
EnvironmentOverrides(a, env) ==
  LET a1 == IF Getenv(env.USE_NETVLAD_RETRIEVAL)
            THEN [a EXCEPT !.use_netvlad_retrieval =
                             (Lower(ValueOf(env.USE_NETVLAD_RETRIEVAL)) = true)]
            ELSE a
      k == IF Getenv(env.NETVLAD_NUM_MATCHED)
           THEN IntOf(ValueOf(env.NETVLAD_NUM_MATCHED)) ELSE Some(a.netvlad_num_matched)
      n == IF Getenv(env.FRAME_SAMPLE_RATE)
           THEN IntOf(ValueOf(env.FRAME_SAMPLE_RATE)) ELSE Some(a.frame_skip)
  IN IF k = None THEN [raised |-> TRUE, args |-> a1]
     ELSE LET a2 == [a1 EXCEPT !.netvlad_num_matched = ValueOf(k)]
          IN IF n = None THEN [raised |-> TRUE, args |-> a2]
             ELSE [raised |-> FALSE, args |-> [a2 EXCEPT !.frame_skip = ValueOf(n)]]

\* main() from parse_args() to its try block: the overrides; a ValueError
\* of int() is raised out of main()
Override ==
  /\ pc = "Overriding"
  /\ LET r == EnvironmentOverrides(args, environ)
     IN /\ args' = r.args
        /\ pc' = IF r.raised THEN "Raised" ELSE "CollectingInput"
  /\ UNCHANGED << environ, parsed, pool_before, sfm_pairs, input_dir, pool, out_files,
                  out_before, trace, completed, failure, exit_code, processed_files,
                  total_image_count, image_list, image_list2, success, raised_in,
                  matcher_conf, engine, model, camera_poses, tum_file, colmap_file,
                  video, extracted >>

(* --------------------------- initial states -------------------------- *)
\* The entries an input directory may hold: two videos of the same stem,
\* two images, a file of another kind and a directory named like an image
VideoNames == { << "a", ".", "m", "p", "4" >>, << "a", ".", "A", "V", "I" >> }

InputCandidates ==
  { InputEntry(n, TRUE, t) : n \in VideoNames, t \in 0..MaxT }
  \cup { InputEntry(<< "b", ".", "J", "P", "G" >>, TRUE, 0),
         InputEntry(<< "c", ".", "p", "n", "g" >>, TRUE, 0),
         InputEntry(<< "d", ".", "t", "x", "t" >>, TRUE, 0),
         InputEntry(<< "e", ".", "j", "p", "g" >>, FALSE, 0) }

InputDirs ==
  { [exists |-> FALSE, entries |-> {}] }
  \cup { [exists |-> TRUE, entries |-> S] :
         S \in { X \in SUBSET InputCandidates :
                   /\ Cardinality(X) <= MaxEntries
                   /\ \A x, y \in X : x.name = y.name => x = y } }

\* The pool as a run finds it: absent, or left by an earlier run
StalePool ==
  [exists |-> TRUE,
   entries |-> { PoolDir(<< "a" >>),
                 PoolFile(Join(<< "a" >>, FrameName(1)), << >>, 1) }]

AbsentPool == [exists |-> FALSE, entries |-> {}]

\* The files of the output directory
OutputFiles ==
  { "pairs-sfm.txt", "features.h5", "matches.h5", "global-features.h5", "sfm",
    "poses/camera_poses.json", "poses/trajectory_tum.txt", "poses/images_poses.txt" }

\* An environment that sets none of the three variables
NoEnviron ==
  [USE_NETVLAD_RETRIEVAL |-> None, NETVLAD_NUM_MATCHED |-> None,
   FRAME_SAMPLE_RATE |-> None]

\* The state of main() as it enters its try block
Entering(stage) ==
  /\ pc = stage
  /\ trace = << >>
  /\ completed = {}
  /\ failure = ""
  /\ exit_code = None
  /\ raised_in = None
  /\ processed_files = << >>
  /\ total_image_count = 0
  /\ image_list = << >>
  /\ image_list2 = None
  /\ success = None
  /\ matcher_conf = ""
  /\ engine = "not called"
  /\ camera_poses = << >>
  /\ tum_file = << >>
  /\ colmap_file = << >>
  /\ sfm_pairs = NoPairs

NoVideo == [frames |-> 0, frame_skip |-> 1, max_frames |-> None]

NothingExtracted == [raised |-> FALSE, count |-> 0, written |-> << >>]

DefaultArgs ==
  [frame_skip |-> 1, max_images |-> None, feature_extractor |-> superpoint_aachen,
   feature_matcher |-> superglue, use_netvlad_retrieval |-> TRUE,
   netvlad_num_matched |-> 20]

\* What an earlier run left behind, if there was one: the pool and the files
\* of the output directory
EarlierRuns ==
  { [pool |-> AbsentPool, files |-> {}],
    [pool |-> StalePool, files |-> { "features.h5" }] }

\* Runs of main() over the input directories, strides and caps, with the
\* default extractor, matcher and retrieval toggle
Init ==
  /\ Entering("CollectingInput")
  /\ args \in { [DefaultArgs EXCEPT !.frame_skip = n, !.max_images = m] :
                n \in 0..MaxN, m \in { None } \cup { Some(k) : k \in 0..MaxM } }
  /\ environ = NoEnviron
  /\ input_dir \in InputDirs
  /\ \E before \in EarlierRuns : pool = before.pool /\ out_files = before.files
  /\ out_before = out_files
  /\ pool_before = pool
  /\ parsed = args
  /\ model = None
  /\ video = NoVideo
  /\ extracted = NothingExtracted

Spec == Init /\ [][Next]_vars

\* Runs of main() over every extractor and matcher the command line accepts
InitCLI ==
  /\ Entering("CollectingInput")
  /\ args \in { [DefaultArgs EXCEPT !.feature_extractor = e, !.feature_matcher = m,
                                    !.use_netvlad_retrieval = u] :
                e \in FeatureExtractors, m \in FeatureMatchers, u \in BOOLEAN }
  /\ parsed = [args EXCEPT !.use_netvlad_retrieval = store_true(FALSE, TRUE)]
  /\ environ = IF args.use_netvlad_retrieval THEN NoEnviron
               ELSE [NoEnviron EXCEPT !.USE_NETVLAD_RETRIEVAL = Some(false)]
  /\ input_dir \in { d \in InputDirs : Cardinality(d.entries) = 1 }
  /\ pool = AbsentPool
  /\ out_files = {}
  /\ out_before = out_files
  /\ pool_before = pool
  /\ model = None
  /\ video = NoVideo
  /\ extracted = NothingExtracted

SpecCLI == InitCLI /\ [][Next]_vars

\* Runs of main() from parse_args() on, over environments that set, set to
\* the empty string or do not set the three variables
ToggleValues ==
  { None, Some(<< >>), Some(true), Some(<< "T", "R", "U", "E" >>), Some(false),
    Some(<< "1" >>) }

CountValues ==
  { None, Some(<< >>), Some(<< "5" >>), Some(<< " ", "+", "7" >>), Some(<< "x" >>) }

RateValues ==
  { None, Some(<< >>), Some(<< "2" >>), Some(<< "0", "_", "3" >>), Some(<< "2", "." >>) }

Environs ==
  [USE_NETVLAD_RETRIEVAL : ToggleValues, NETVLAD_NUM_MATCHED : CountValues,
   FRAME_SAMPLE_RATE : RateValues]

\* The command lines: --frame_skip and --netvlad_num_matched given or not,
\* --use_netvlad_retrieval given or not
CommandLines ==
  { [DefaultArgs EXCEPT !.frame_skip = n, !.netvlad_num_matched = k,
                        !.use_netvlad_retrieval = store_true(given, TRUE)] :
    n \in { 1, 5 }, k \in { 20, 9 }, given \in BOOLEAN }

\* A video of 6 frames
SixFrames == [exists |-> TRUE, entries |-> { InputEntry(<< "a", ".", "m", "p", "4" >>, TRUE, 6) }]

InitEnv ==
  /\ Entering("Overriding")
  /\ parsed \in CommandLines
  /\ args = parsed
  /\ environ \in Environs
  /\ input_dir = SixFrames
  /\ pool = AbsentPool
  /\ out_files = {}
  /\ out_before = out_files
  /\ pool_before = pool
  /\ model = None
  /\ video = NoVideo
  /\ extracted = NothingExtracted

SpecEnv == InitEnv /\ [][Override \/ Next]_vars

\* Runs of main() over input directories of three still images, with the
\* default stride and the retrieval switched off by the environment
StillCandidates ==
  { InputEntry(<< "b", ".", "J", "P", "G" >>, TRUE, 0),
    InputEntry(<< "c", ".", "p", "n", "g" >>, TRUE, 0),
    InputEntry(<< "Z", ".", "j", "p", "e", "g" >>, TRUE, 0),
    InputEntry(<< "a", ".", "t", "i", "f" >>, TRUE, 0) }

\* Entries that are neither a video nor a still image
OtherEntries ==
  { InputEntry(<< "d", ".", "t", "x", "t" >>, TRUE, 0),
    InputEntry(<< "e", ".", "j", "p", "g" >>, FALSE, 0) }

ThreeStills ==
  { [exists |-> TRUE, entries |-> S \cup O] :
    S \in { X \in SUBSET StillCandidates : Cardinality(X) = 3 },
    O \in { {}, OtherEntries } }

InitStills ==
  /\ Entering("Overriding")
  /\ parsed \in { [DefaultArgs EXCEPT !.max_images = m] :
                  m \in { None } \cup { Some(k) : k \in 0..MaxM } }
  /\ args = parsed
  /\ environ = [NoEnviron EXCEPT !.USE_NETVLAD_RETRIEVAL = Some(false)]
  /\ input_dir \in ThreeStills
  /\ \E before \in EarlierRuns : pool = before.pool /\ out_files = before.files
  /\ out_before = out_files
  /\ pool_before = pool
  /\ model = None
  /\ video = NoVideo
  /\ extracted = NothingExtracted

SpecStills == InitStills /\ [][Override \/ Next]_vars

(* ------------------- the functions called on their own --------------- *)
\* A state in which main() is not running
Outside(call) ==
  /\ Entering(call)
  /\ args = DefaultArgs
  /\ parsed = args
  /\ environ = NoEnviron
  /\ input_dir = [exists |-> FALSE, entries |-> {}]
  /\ out_files = {}
  /\ out_before = {}

\* extract_frames_from_video on a video, a stride and a cap
InitFrames ==
  /\ Outside("extract_frames_from_video")
  /\ pool = AbsentPool
  /\ pool_before = pool
  /\ model = None
  /\ video \in [frames : 0..MaxFrames, frame_skip : 0..MaxStride,
                max_frames : { None } \cup { Some(k) : k \in 0..MaxCap }]
  /\ extracted = NothingExtracted

ExtractVideo ==
  /\ pc = "extract_frames_from_video"
  /\ extracted' = extract_frames_from_video(video.frames, video.frame_skip,
                                            video.max_frames)
  /\ pc' = "frames extracted"
  /\ UNCHANGED << args, environ, parsed, pool_before, sfm_pairs,
                  input_dir, pool, out_files, out_before, trace, completed,
                  failure, exit_code, processed_files, total_image_count, image_list,
                  image_list2, success, raised_in, matcher_conf, engine, model,
                  camera_poses, tum_file, colmap_file, video >>

SpecFrames == InitFrames /\ [][ExtractVideo]_vars

\* collect_image_list on a pool, twice
PoolCandidates ==
  { PoolDir(<< "a" >>),
    PoolFile(Join(<< "a" >>, FrameName(0)), << >>, 0),
    PoolFile(Join(<< "a" >>, FrameName(1)), << >>, 1),
    PoolDir(Join(<< "a" >>, << "s" >>)),
    PoolFile(Join(Join(<< "a" >>, << "s" >>), << "c", ".", "T", "i", "f", "f" >>), << >>, 0),
    PoolFile(<< "b", ".", "J", "P", "G" >>, << >>, 0),
    PoolFile(<< "Z", ".", "p", "n", "g" >>, << >>, 0),
    PoolFile(<< "d", ".", "t", "x", "t" >>, << >>, 0),
    PoolFile(<< ".", "j", "p", "g" >>, << >>, 0),
    PoolDir(<< "e", ".", "j", "p", "g" >>) }

\* PurePath.parent of a relative path: empty for an entry of the pool's root
Parent(path) ==
  IF RFind(path, "/") = 0 THEN << >> ELSE SubSeq(path, 1, RFind(path, "/") - 1)

Pools ==
  { AbsentPool }
  \cup { [exists |-> TRUE, entries |-> S] :
         S \in { X \in SUBSET PoolCandidates :
                   /\ Cardinality(X) <= MaxPool
                   /\ \A x \in X : Parent(x.path) # << >> => IsDirAt(X, Parent(x.path)) } }

InitList ==
  /\ Outside("collect_image_list")
  /\ pool \in Pools
  /\ pool_before = pool
  /\ model = None
  /\ video = NoVideo
  /\ extracted = NothingExtracted

ListPool ==
  /\ pc = "collect_image_list"
  /\ \E walk \in Perms(pool.entries) : image_list' = collect_image_list(pool, walk)
  /\ pc' = "listed"
  /\ UNCHANGED << args, environ, parsed, pool_before, sfm_pairs,
                  input_dir, pool, out_files, out_before, trace, completed,
                  failure, exit_code, processed_files, total_image_count,
                  image_list2, success, raised_in, matcher_conf, engine, model,
                  camera_poses, tum_file, colmap_file, video, extracted >>

ListPoolAgain ==
  /\ pc = "listed"
  /\ \E walk \in Perms(pool.entries) :
       image_list2' = Some(collect_image_list(pool, walk))
  /\ pc' = "listed again"
  /\ UNCHANGED << args, environ, parsed, pool_before, sfm_pairs,
                  input_dir, pool, out_files, out_before, trace, completed,
                  failure, exit_code, processed_files, total_image_count,
                  image_list, success, raised_in, matcher_conf, engine, model,
                  camera_poses, tum_file, colmap_file, video, extracted >>

SpecList == InitList /\ [][ListPool \/ ListPoolAgain]_vars

\* export_camera_poses on a model
ExportNames ==
  << Join(<< "a" >>, FrameName(0)), Join(<< "a" >>, FrameName(1)),
     << "a", ".", "j", "p", "g" >>, << "b", ".", "J", "P", "G" >>,
     << "Z", ".", "p", "n", "g" >> >>

\* The image of name j with a pose: the ids run against the names
ExportImage(j, pose) ==
  [image_id |-> Len(ExportNames) + 1 - j,
   name |-> ExportNames[j],
   camera_id |-> 1 + (j % 2),
   cam_from_world |-> pose,
   points2D |-> [k \in 1..(j % 3) |-> k = 1]]

ExportModels ==
  { [images |-> { ExportImage(j, SamplePoses[f[j]]) : j \in J }] :
    J \in { X \in SUBSET (1..Len(ExportNames)) : Cardinality(X) <= MaxImages },
    f \in [1..Len(ExportNames) -> 1..Len(SamplePoses)] }

InitExport ==
  /\ Outside("export_camera_poses")
  /\ pool = AbsentPool
  /\ pool_before = pool
  /\ video = NoVideo
  /\ extracted = NothingExtracted
  /\ \E m \in ExportModels : model = Some(m)

ExportModel ==
  /\ pc = "export_camera_poses"
  /\ \E raises \in BOOLEAN :
     \E items \in IF raises THEN { << >> } ELSE Perms(ValueOf(model).images) :
       LET r == export_camera_poses(items, out_files, raises)
       IN /\ out_files' = r.files
          /\ camera_poses' = r.camera_poses
          /\ tum_file' = r.tum
          /\ colmap_file' = r.colmap
          /\ raised_in' = IF r.raised THEN Some("export") ELSE None
  /\ pc' = "exported"
  /\ UNCHANGED << args, environ, parsed, pool_before, sfm_pairs,
                  input_dir, pool, out_before, trace, completed, failure,
                  exit_code, processed_files, total_image_count, image_list,
                  image_list2, success, matcher_conf, engine, model, video,
                  extracted >>

SpecExport == InitExport /\ [][ExportModel]_vars

(* ------------------------------ claims ------------------------------ *)
AllStages == { Stages[i] : i \in 1..Len(Stages) }

Returned == pc \in { "Done", "Failed" }

\* C1: main() has an exit code exactly when it has returned; the code is 0
\* exactly when all five stages completed without a reported failure, and it
\* is 1 when the total image count is zero, when the manifest is empty, when
\* extract_and_match_features returned false, when the engine's model is
\* absent, and when a stage raised.
C1_ExitCode ==
  /\ Returned <=> exit_code # None
  /\ Returned =>
       /\ exit_code \in { Some(0), Some(1) }
       /\ exit_code = Some(0) <=> completed = AllStages
       /\ total_image_count = 0 => exit_code = Some(1)
       /\ image_list = << >> => exit_code = Some(1)
       /\ success = Some(FALSE) => exit_code = Some(1)
       /\ engine = "null" => exit_code = Some(1)
       /\ raised_in # None => exit_code = Some(1)

C1_Witness ==
  /\ pc = "Done"
  /\ exit_code = Some(0)
  /\ Len(camera_poses) > 0
  /\ total_image_count > 0

\* The controller's state once the first k stages have completed
StateAfter(k) ==
  << "CollectingInput", "Listing", "ExtractingMatching", "Reconstructing",
     "Exporting", "Done" >>[k + 1]

\* C2 (state part): the stages called are an initial part of collect, list,
\* extract, reconstruct, export, each called once and in this order; all but
\* possibly the last have completed, the controller is in the state after the
\* completed ones or in Failed, and a stage was called only after the stage
\* before it gave the result the controller asks for.
C2_StagesInOrder ==
  /\ \E k \in 0..Len(Stages) :
       /\ trace = SubSeq(Stages, 1, k)
       /\ \/ pc = StateAfter(k) /\ completed = { Stages[i] : i \in 1..k }
          \/ k >= 1 /\ pc = "Failed" /\ completed = { Stages[i] : i \in 1..(k - 1) }
  /\ Len(trace) >= 2 => total_image_count > 0
  /\ Len(trace) >= 3 => image_list # << >>
  /\ Len(trace) >= 4 => success = Some(TRUE)
  /\ Len(trace) >= 5 => model # None
  /\ failure # "" <=> pc = "Failed"

\* C2: the stages run in the fixed order, none skipped or repeated, each only
\* after the one before it succeeded, and once the controller is in Failed no
\* stage runs and nothing is exported.
C2_StageOrder ==
  /\ [] C2_StagesInOrder
  /\ [][pc = "Failed" =>
          /\ pc' = "Failed"
          /\ trace' = trace
          /\ out_files' = out_files
          /\ camera_poses' = camera_poses]_vars

C2_Witness ==
  /\ pc = "Done"
  /\ trace = Stages
  /\ completed = AllStages

DigitChars == << "0", "1", "2", "3", "4", "5", "6", "7", "8", "9" >>

\* frame_<k as 6 digits>.jpg for k < 100
SixDigits(k) ==
  << "0", "0", "0", "0", DigitChars[(k \div 10) + 1], DigitChars[(k % 10) + 1] >>

ExpectedFrameName(k) ==
  << "f", "r", "a", "m", "e", "_" >> \o SixDigits(k) \o << ".", "j", "p", "g" >>

\* min(ceil(T / N), M), and ceil(T / N) when M is unset
ExpectedFrames(T, N, M) ==
  LET c == (T + N - 1) \div N
  IN IF M = None THEN c ELSE IF ValueOf(M) < c THEN ValueOf(M) ELSE c

\* C3: for a video of T decodable frames, a stride N >= 1 and an optional
\* cap M >= 0, extract_frames_from_video writes min(ceil(T/N), M) frames
\* (ceil(T/N) without a cap); the k-th frame written is source frame k*N and
\* is named frame_<k as 6 digits>.jpg, k = 0, 1, 2, ...
C3_FramesExtracted ==
  (pc = "frames extracted" /\ video.frame_skip >= 1) =>
    LET n == ExpectedFrames(video.frames, video.frame_skip, video.max_frames)
    IN /\ ~extracted.raised
       /\ extracted.count = n
       /\ Len(extracted.written) = n
       /\ \A k \in 0..(n - 1) :
            extracted.written[k + 1] =
              [name |-> ExpectedFrameName(k), frame |-> k * video.frame_skip]

C3_Witness ==
  /\ pc = "frames extracted"
  /\ video = [frames |-> 10, frame_skip |-> 3, max_frames |-> None]
  /\ extracted.count = 4
  /\ extracted.written[4] = [name |-> ExpectedFrameName(3), frame |-> 9]

\* The input directory is absent, or holds only entries that are not regular
\* files or whose extension is in neither allow-list
NoUsableInput ==
  \/ ~input_dir.exists
  \/ \A e \in input_dir.entries :
       \/ ~e.is_file
       \/ Lower(Suffix(e.name)) \notin (video_extensions \cup image_extensions)

\* C4: when the input directory is absent or holds no usable entry,
\* process_input_files returns no processed files and a total of 0 without
\* raising, and main() reports the failure and returns 1.
C4_NoUsableInputFails ==
  (NoUsableInput /\ trace # << >>) =>
    /\ trace = << "collect" >>
    /\ processed_files = << >>
    /\ total_image_count = 0
    /\ raised_in = None
    /\ pc = "Failed"
    /\ failure = NoInput
    /\ exit_code = Some(1)

C4_Witness ==
  /\ input_dir.exists
  /\ \E e \in input_dir.entries : e.is_file
  /\ \E e \in input_dir.entries : ~e.is_file
  /\ NoUsableInput
  /\ exit_code = Some(1)

\* C5: a run over an empty input directory ends in failure with exit code 1
\* and leaves the output directory as it found it: none of pairs-sfm.txt,
\* features.h5, matches.h5, global-features.h5, sfm and the three files of
\* poses is created.
C5_EmptyInputCreatesNothing ==
  (input_dir.exists /\ input_dir.entries = {} /\ trace # << >>) =>
    /\ pc = "Failed"
    /\ exit_code = Some(1)
    /\ out_files = out_before
    /\ (OutputFiles \ out_before) \cap out_files = {}

C5_Witness ==
  /\ input_dir.exists
  /\ input_dir.entries = {}
  /\ pc = "Failed"
  /\ \E e \in pool.entries : e.is_file
  /\ out_files = out_before

\* A printed number (in 1e-6) is the stored number (in 1e-7) to the printed
\* precision
Printed(p, x) == 10 * p - x \in -5..5

\* C6: export_camera_poses gives one pose record per registered image; the
\* JSON records, the TUM lines and the detailed lines are as many, in the
\* same order, ascending by image_name; TUM line i carries the index i as 6
\* digits and the translation and quaternion of JSON record i to the printed
\* precision, the quaternion reordered from (w, x, y, z) to (x, y, z, w).
C6_ExportsAgree ==
  (pc = "exported" /\ raised_in = None) =>
    LET images == ValueOf(model).images
        n == Cardinality(images)
    IN /\ Len(camera_poses) = n
       /\ Len(tum_file) = n
       /\ Len(colmap_file) = n
       /\ \A image \in images :
            \E i \in 1..n : /\ camera_poses[i].image_id = image.image_id
                            /\ camera_poses[i].image_name = image.name
       /\ \A i, j \in 1..n :
            i < j => StrLess(camera_poses[i].image_name, camera_poses[j].image_name)
       /\ \A i \in 1..n :
            LET pose == camera_poses[i]
                tum == tum_file[i]
                line == colmap_file[i]
            IN /\ line.image_id = pose.image_id
               /\ line.image_name = pose.image_name
               /\ tum.timestamp = SixDigits(i - 1)
               /\ \A k \in 1..3 : /\ Printed(tum.t[k], pose.translation[k])
                                  /\ Printed(line.t[k], pose.translation[k])
               /\ \A k \in 1..3 : Printed(tum.q[k], pose.quaternion[k + 1])
               /\ Printed(tum.q[4], pose.quaternion[1])
               /\ \A k \in 1..4 : Printed(line.q[k], pose.quaternion[k])

C6_Witness ==
  /\ pc = "exported"
  /\ raised_in = None
  /\ Len(camera_poses) = 3
  /\ camera_poses[1].image_name = << "Z", ".", "p", "n", "g" >>
  /\ camera_poses[1].image_id < camera_poses[2].image_id
  /\ camera_poses[2].quaternion[2] # 0
  /\ tum_file[2].q[1] # 0

\* The matcher configuration the claim names for the run's arguments
ExpectedMatcher ==
  IF args.feature_matcher = superglue THEN "superglue"
  ELSE IF args.feature_matcher = lightglue
          /\ args.feature_extractor \in { aliked, aliked_n16 }
  THEN "aliked+lightglue"
  ELSE "nearest_neighbor"

\* C7: for every extractor and matcher the command line accepts, the matcher
\* configuration used is superglue for matcher superglue, aliked+lightglue
\* for matcher lightglue with an extractor whose name starts with aliked,
\* and nearest_neighbor otherwise.
C7_MatcherConfiguration ==
  /\ matcher_conf # "" => matcher_conf = ExpectedMatcher
  /\ "extract" \in completed => matcher_conf # ""

C7_Witness ==
  /\ "extract" \in completed
  /\ args.feature_matcher = lightglue
  /\ args.feature_extractor = superpoint_aachen
  /\ matcher_conf = "nearest_neighbor"

\* C8: the manifest of collect_image_list is strictly ascending (sorted,
\* without duplicates), holds exactly the regular files of the pool, at any
\* depth, whose lower-cased extension is an image extension, is empty when
\* the pool does not exist, and a second call on the same pool gives it
\* again.
C8_Manifest ==
  pc \in { "listed", "listed again" } =>
    /\ \A i, j \in 1..Len(image_list) :
         i < j => StrLess(image_list[i], image_list[j])
    /\ { image_list[i] : i \in 1..Len(image_list) } =
         { e.path : e \in { x \in pool.entries :
                              /\ x.is_file
                              /\ Lower(Suffix(x.path)) \in image_extensions } }
    /\ ~pool.exists => image_list = << >>
    /\ pc = "listed again" => image_list2 = Some(image_list)

C8_Witness ==
  /\ pc = "listed again"
  /\ image_list = << << "Z", ".", "p", "n", "g" >>, << "b", ".", "J", "P", "G" >> >>
  /\ \E e \in pool.entries : e.path \notin { image_list[i] : i \in 1..Len(image_list) }

\* C9: when the engine returns no model for a non-empty manifest,
\* run_sfm_reconstruction hands the absent model back, main() reports the
\* failed reconstruction and returns 1, and export_camera_poses is not
\* called.
C9_AbsentModelHandedBack ==
  engine = "null" =>
    /\ raised_in = None
    /\ failure = SfmFailed
    /\ pc = "Failed"
    /\ exit_code = Some(1)
    /\ "export" \notin { trace[i] : i \in 1..Len(trace) }

\* C10 as stated: a model without registered images is not an error of
\* run_sfm_reconstruction, and main() does not go on to the export before it
\* has checked that images are registered.
C10_RegistrationChecked ==
  /\ engine = "model" => raised_in # Some("reconstruct")
  /\ pc \in { "Exporting", "Done" } => ValueOf(model).images # {}

\* C10 as amended: a model without registered images is not an error of
\* run_sfm_reconstruction, and main() goes on to the export whenever the
\* model is not None, whatever its registration count: without registered
\* images the export gives no pose record and the run ends with exit code 0.
C10_ExportsWhateverRegistered ==
  engine = "model" =>
    /\ model # None
    /\ "reconstruct" \in completed
    /\ pc \in { "Exporting", "Done", "Failed" }
    /\ pc = "Failed" => raised_in = Some("export")
    /\ (pc = "Done" /\ ValueOf(model).images = {}) =>
         /\ camera_poses = << >>
         /\ tum_file = << >>
         /\ colmap_file = << >>
         /\ exit_code = Some(0)

C10_Witness ==
  /\ pc = "Done"
  /\ engine = "model"
  /\ ValueOf(model).images = {}
  /\ exit_code = Some(0)
  /\ "poses/camera_poses.json" \in out_files

\* C11: when --max_images is set to M, the total image count returned by
\* process_input_files and the size of the manifest handed to feature
\* extraction are at most M, whatever videos and still images the input
\* directory holds.
C11_MaxImagesCapsRun ==
  args.max_images # None =>
    /\ "collect" \in completed => total_image_count <= ValueOf(args.max_images)
    /\ "list" \in completed => Len(image_list) <= ValueOf(args.max_images)

\* The unordered pairs of a pair list
Unordered(pairs) == { { pairs[i][1], pairs[i][2] } : i \in 1..Len(pairs) }

\* The outcome of the scenario of three still images: a manifest of 3
\* entries, 3 exhaustive pairs without a self-pair or a repeated unordered
\* pair, and after the export at most 3 pose records ascending by image name
ThreeStillsOutcome ==
  /\ "list" \in completed => Len(image_list) = 3
  /\ sfm_pairs.call # "none" =>
       /\ sfm_pairs.call = "pairs_from_exhaustive"
       /\ LET pairs == ValueOf(sfm_pairs.pairs)
          IN /\ Len(pairs) = 3
             /\ \A i \in 1..Len(pairs) : pairs[i][1] # pairs[i][2]
             /\ Cardinality(Unordered(pairs)) = Len(pairs)
             /\ \A i \in 1..Len(pairs) :
                  pairs[i][1] \in { image_list[k] : k \in 1..Len(image_list) }
                  /\ pairs[i][2] \in { image_list[k] : k \in 1..Len(image_list) }
  /\ pc = "Done" =>
       /\ Len(camera_poses) <= 3
       /\ \A i, j \in 1..Len(camera_poses) :
            i < j => StrLess(camera_poses[i].image_name, camera_poses[j].image_name)

\* C12 as stated: for an input directory of exactly 3 still images and no
\* video, with frame_skip 1 and the retrieval switched off, the manifest has
\* 3 entries, the exhaustive pair set has 3 pairs (no self-pair, no repeated
\* unordered pair) and a successful run exports at most 3 pose records
\* sorted by image name.
C12_ThreeStills == ThreeStillsOutcome

\* C12 as amended: the same, for a run that starts from an empty temp image
\* pool.
C12_ThreeStillsEmptyPool == pool_before.entries = {} => ThreeStillsOutcome

C12_Witness ==
  /\ pc = "Done"
  /\ pool_before.entries = {}
  /\ Len(image_list) = 3
  /\ sfm_pairs.call = "pairs_from_exhaustive"
  /\ Len(ValueOf(sfm_pairs.pairs)) = 3
  /\ Len(camera_poses) = 3
  /\ camera_poses[1].image_name = << "Z", ".", "j", "p", "e", "g" >>

\* The values handed to the stages, seen in what the stages did with them:
\* the pair generation called and its top-K, and the frames taken from the
\* video of the input directory
ValuesUsed ==
  /\ sfm_pairs.call # "none" =>
       /\ sfm_pairs.call = "pairs_from_retrieval" <=> args.use_netvlad_retrieval
       /\ args.use_netvlad_retrieval =>
            sfm_pairs.num_matched = Some(args.netvlad_num_matched)
  /\ "collect" \in completed =>
       LET file == CHOOSE e \in input_dir.entries : TRUE
       IN total_image_count = ExpectedFrames(file.frames, args.frame_skip, None)

\* The variable is present in the environment
Present(value) == value # None

\* The variable is present and not the empty string
NonEmpty(value) == value # None /\ ValueOf(value) # << >>

\* The toggle a string gives: true for "true" in any case
ToggleOf(s) == Lower(s) = << "t", "r", "u", "e" >>

\* C13 as stated: each of USE_NETVLAD_RETRIEVAL, NETVLAD_NUM_MATCHED and
\* FRAME_SAMPLE_RATE, when present, gives the value the pipeline uses for
\* the retrieval toggle, the top-K and the frame skip; when absent, the value
\* used is the one of the command line (toggle true by default).
C13_PresentOverrides ==
  pc # "Overriding" =>
    /\ IF Present(environ.USE_NETVLAD_RETRIEVAL)
       THEN args.use_netvlad_retrieval = ToggleOf(ValueOf(environ.USE_NETVLAD_RETRIEVAL))
       ELSE args.use_netvlad_retrieval = parsed.use_netvlad_retrieval
    /\ IF Present(environ.NETVLAD_NUM_MATCHED)
       THEN Some(args.netvlad_num_matched) = IntOf(ValueOf(environ.NETVLAD_NUM_MATCHED))
       ELSE args.netvlad_num_matched = parsed.netvlad_num_matched
    /\ IF Present(environ.FRAME_SAMPLE_RATE)
       THEN Some(args.frame_skip) = IntOf(ValueOf(environ.FRAME_SAMPLE_RATE))
       ELSE args.frame_skip = parsed.frame_skip
    /\ parsed.use_netvlad_retrieval
    /\ ValuesUsed

\* The environment gives a top-K or a frame skip that int() does not read
Unreadable ==
  \/ /\ NonEmpty(environ.NETVLAD_NUM_MATCHED)
     /\ IntOf(ValueOf(environ.NETVLAD_NUM_MATCHED)) = None
  \/ /\ NonEmpty(environ.FRAME_SAMPLE_RATE)
     /\ IntOf(ValueOf(environ.FRAME_SAMPLE_RATE)) = None

\* C13 as amended: a variable set to a non-empty string gives the value the
\* pipeline uses, in place of the command line's: the toggle is true exactly
\* when the string is "true" in any case, the top-K and the frame skip are
\* the integer int() reads; when int() cannot read one of them main() raises
\* before any stage runs.  A variable that is absent or set to the empty
\* string leaves the value of the command line (toggle always true there).
C13_NonEmptyOverrides ==
  pc # "Overriding" =>
    /\ pc = "Raised" <=> Unreadable
    /\ pc = "Raised" => trace = << >> /\ exit_code = None
    /\ pc # "Raised" =>
         /\ IF NonEmpty(environ.USE_NETVLAD_RETRIEVAL)
            THEN args.use_netvlad_retrieval =
                   ToggleOf(ValueOf(environ.USE_NETVLAD_RETRIEVAL))
            ELSE args.use_netvlad_retrieval = parsed.use_netvlad_retrieval
         /\ IF NonEmpty(environ.NETVLAD_NUM_MATCHED)
            THEN Some(args.netvlad_num_matched) =
                   IntOf(ValueOf(environ.NETVLAD_NUM_MATCHED))
            ELSE args.netvlad_num_matched = parsed.netvlad_num_matched
         /\ IF NonEmpty(environ.FRAME_SAMPLE_RATE)
            THEN Some(args.frame_skip) = IntOf(ValueOf(environ.FRAME_SAMPLE_RATE))
            ELSE args.frame_skip = parsed.frame_skip
         /\ parsed.use_netvlad_retrieval
         /\ ValuesUsed

C13_Witness ==
  /\ pc = "Done"
  /\ environ = [USE_NETVLAD_RETRIEVAL |-> Some(<< "T", "R", "U", "E" >>),
                NETVLAD_NUM_MATCHED |-> Some(<< " ", "+", "7" >>),
                FRAME_SAMPLE_RATE |-> Some(<< "2" >>)]
  /\ parsed.frame_skip = 5
  /\ parsed.netvlad_num_matched = 9
  /\ total_image_count = 3
  /\ sfm_pairs.num_matched = Some(7)

\* The sum of the counts of the file records
RECURSIVE SumCounts(_)
SumCounts(records) ==
  IF records = << >> THEN 0 ELSE Head(records).count + SumCounts(Tail(records))

\* The files of the pool that hold what was written for an input file
WrittenFor(name) == { e \in pool.entries : e.is_file /\ e.src = name }

\* C14: for a run that starts from an empty temp image pool, the total of
\* process_input_files is the sum of the counts of its file records, every
\* input file still has as many files in the pool as its record counts (none
\* was overwritten by the frames of another input file), and the manifest of
\* collect_image_list has as many entries as the total.
C14_PoolMatchesCounts ==
  pool_before.entries = {} =>
    /\ "collect" \in completed =>
         /\ total_image_count = SumCounts(processed_files)
         /\ \A i \in 1..Len(processed_files) :
              Cardinality(WrittenFor(processed_files[i].path)) = processed_files[i].count
    /\ "list" \in completed => Len(image_list) = total_image_count

=============================================================================
